---- MODULE Spec2Model ----
(***************************************************************************)
(* A model of src/app.py: the two transfer tasks migrate_index (source     *)
(* index -> destination index) and dump_index_to_jsonl (source index ->    *)
(* chunked .jsonl files), as main() submits them.  One step of the model   *)
(* is the code that runs between two suspension points (await) of a task,  *)
(* or one iteration of its "async for" loop; every awaited call and every  *)
(* file-system call may raise.                                             *)
(***************************************************************************)
EXTENDS Integers, Sequences, FiniteSets, TLC

(* ---- bounds of the model ---- *)
MaxDocs == 4        \* longest small dataset
MaxNoId == 1        \* documents of a dataset whose identifier is absent
MaxPage == 2        \* largest docs_per_request of the small configurations
MaxChunk == 2       \* largest max_docs_per_file of the small configurations
ScenarioDocs == 25  \* scenario A of the specification: 25 documents,
ScenarioPage == 10  \*   page size 10,
ScenarioChunk == 10 \*   chunk size 10

VARIABLES
  mode,               \* "migrate" | "dump": which form was submitted
  pc,                 \* position of the task
  raised,             \* the task function ended by raising (from finally)
  task,               \* the task dict: is_completed, docs_per_request,
                      \*   max_docs_per_file, and "error" once recorded
  src_docs,           \* documents of the source index matching the query
  src_settings,       \* keys of the source index's settings
  dst_index,          \* the destination index: exists, settings, mappings
  dir_exists,         \* os.path.exists(dst_dir)
  src_es, dst_es,     \* "unbound" | "open" | "closed" | "close_failed"
  src_index_settings, \* local: settings keys fetched from the source
  total_docs,         \* local: src_index_count["count"]; -1 before the count
  current_doc_enum,   \* local
  current_file_num,   \* local (dump)
  dump_chunk,         \* local (dump): buffered lines
  doc,                \* local (migrate): the document being written
  scan_fetched,       \* scanner: documents fetched from the source so far
  scan_buf,           \* scanner: documents of the current page not yet yielded
  files,              \* dst_dir: chunk number -> lines of <index>-<n>.jsonl
  write_log,          \* the files opened for writing, in order
  indexed,            \* dst_es.index calls that succeeded, in order
  progress,           \* numerators published to the progress bar, in order
  calls,              \* requests issued: create, count, scan, index
  written_ok,         \* history: documents whose sink write has succeeded
  failed_doc,         \* history: k if the sink write of document k raised
  peer                \* a second migrate_index task on the same destination
                      \*   index: its position, create calls and failure

vars == <<mode, pc, raised, task, src_docs, src_settings, dst_index, dir_exists,
          src_es, dst_es, src_index_settings, total_docs, current_doc_enum,
          current_file_num, dump_chunk, doc, scan_fetched, scan_buf, files,
          write_log, indexed, progress, calls, written_ok, failed_doc, peer>>

(* ---- values ---- *)
NoDoc == [n |-> 0, has_id |-> FALSE]

Min(a, b) == IF a < b THEN a ELSE b

\* The settings keys migrate_index removes before creating the destination.
StripKeys == {"creation_date", "provided_name", "uuid", "version"}

\* for key in [...]: settings.pop(key, None) -- tolerant of absent keys.
Sanitize(settings) == settings \ StripKeys

NoIndex == [exists |-> FALSE, settings |-> {}, mappings |-> "none"]
OwnIndex == [exists |-> TRUE, settings |-> {"number_of_replicas"}, mappings |-> "dst"]
CopyOf(settings) == [exists |-> TRUE, settings |-> Sanitize(settings), mappings |-> "src"]

SrcSettingsChoices ==
  { {"number_of_shards"} \cup s : s \in {{}, {"uuid", "version"}, StripKeys} }

\* Datasets: n documents, numbered in scan order; at most MaxNoId of them
\* carry no "_id".
Dataset(n, noid) == [i \in 1..n |-> [n |-> i, has_id |-> i \notin noid]]

SmallDatasets ==
  { Dataset(n, noid) : n \in 0..MaxDocs,
                       noid \in {s \in SUBSET (1..MaxDocs) : Cardinality(s) <= MaxNoId} }

\* The task dict with "error" recorded: task["error"] = str(e).
SetError(t, e) == [k \in DOMAIN t \cup {"error"} |-> IF k = "error" THEN e ELSE t[k]]

HasError == "error" \in DOMAIN task

NewTask(p, c) == [is_completed |-> FALSE, docs_per_request |-> p, max_docs_per_file |-> c]

Bump(c, k) == [c EXCEPT ![k] = @ + 1]

(* ---- initial states: the forms as filled in, before submit ---- *)
InitLocals ==
  /\ pc = "pending"
  /\ raised = FALSE
  /\ src_es = "unbound"
  /\ dst_es = "unbound"
  /\ src_index_settings = {}
  /\ total_docs = -1
  /\ current_doc_enum = 0
  /\ current_file_num = 0
  /\ dump_chunk = <<>>
  /\ doc = NoDoc
  /\ scan_fetched = 0
  /\ scan_buf = <<>>
  /\ files = <<>>
  /\ write_log = <<>>
  /\ indexed = <<>>
  /\ progress = <<>>
  /\ calls = [create |-> 0, count |-> 0, scan |-> 0, index |-> 0]
  /\ written_ok = 0
  /\ failed_doc = 0
  /\ peer = [pc |-> "idle", creates |-> 0, failed |-> FALSE]

InitMigrate ==
  /\ mode = "migrate"
  /\ src_docs \in SmallDatasets
  /\ \E p \in 1..MaxPage : task = NewTask(p, 1)
  /\ src_settings \in SrcSettingsChoices
  /\ dst_index \in {NoIndex, OwnIndex, CopyOf(src_settings)}
  /\ dir_exists = FALSE

InitDump ==
  /\ mode = "dump"
  /\ \/ /\ src_docs \in SmallDatasets
        /\ \E p \in 1..MaxPage, c \in 1..MaxChunk : task = NewTask(p, c)
     \/ /\ src_docs = Dataset(ScenarioDocs, {})
        /\ task = NewTask(ScenarioPage, ScenarioChunk)
  /\ src_settings = {"number_of_shards"}
  /\ dst_index = NoIndex
  /\ dir_exists \in BOOLEAN

Init == InitLocals /\ (InitMigrate \/ InitDump)

(* ---- groups of variables an action leaves alone ---- *)
inputs == <<mode, src_docs, src_settings>>
conns == <<src_es, dst_es>>
scanv == <<scan_fetched, scan_buf>>
dumpv == <<current_file_num, dump_chunk, files, write_log>>
hist == <<written_ok, failed_doc>>

N == Len(src_docs)

\* The exception swallowed: nothing recorded on the task.
Fail_NotRecorded(e) ==
  /\ task' = task
  /\ pc' = "close_src"

\* except Exception as e: task["error"] = str(e); then the finally block.
Fail(e) ==
  /\ task' = SetError(task, e)
  /\ pc' = "close_src"

(* ---- main(): the submit button ---- *)
\* json.loads(query_input) either raises (st.error, return: no task) or the
\* task dict is built and the task function is awaited.
Submit ==
  /\ pc = "pending"
  /\ \E query_ok \in BOOLEAN : pc' = IF query_ok THEN "conn_src" ELSE "rejected"
  /\ UNCHANGED <<inputs, peer, raised, task, dst_index, dir_exists, conns,
                 src_index_settings, total_docs, current_doc_enum, doc, scanv,
                 dumpv, indexed, progress, calls, hist>>

(* ---- connections ---- *)
ConnectSrcOk ==
  /\ pc = "conn_src"
  /\ src_es' = "open"
  /\ pc' = IF mode = "migrate" THEN "conn_dst" ELSE "count"
  /\ UNCHANGED <<inputs, peer, raised, task, dst_index, dir_exists, dst_es,
                 src_index_settings, total_docs, current_doc_enum, doc, scanv,
                 dumpv, indexed, progress, calls, hist>>

ConnectSrcFail ==
  /\ pc = "conn_src"
  /\ Fail("ValueError")
  /\ UNCHANGED <<inputs, peer, raised, dst_index, dir_exists, conns,
                 src_index_settings, total_docs, current_doc_enum, doc, scanv,
                 dumpv, indexed, progress, calls, hist>>

ConnectDstOk ==
  /\ pc = "conn_dst"
  /\ dst_es' = "open"
  /\ pc' = "get_settings"
  /\ UNCHANGED <<inputs, peer, raised, task, dst_index, dir_exists, src_es,
                 src_index_settings, total_docs, current_doc_enum, doc, scanv,
                 dumpv, indexed, progress, calls, hist>>

ConnectDstFail ==
  /\ pc = "conn_dst"
  /\ Fail("ValueError")
  /\ UNCHANGED <<inputs, peer, raised, dst_index, dir_exists, conns,
                 src_index_settings, total_docs, current_doc_enum, doc, scanv,
                 dumpv, indexed, progress, calls, hist>>

(* ---- migrate_index: schema replication ---- *)
GetSettingsOk ==
  /\ pc = "get_settings"
  /\ src_index_settings' = src_settings
  /\ pc' = "get_mapping"
  /\ UNCHANGED <<inputs, peer, raised, task, dst_index, dir_exists, conns,
                 total_docs, current_doc_enum, doc, scanv,
                 dumpv, indexed, progress, calls, hist>>

\* get_mapping returns; the four keys are popped; exists() is awaited.
GetMappingOk ==
  /\ pc = "get_mapping"
  /\ src_index_settings' = Sanitize(src_index_settings)
  /\ pc' = "exists"
  /\ UNCHANGED <<inputs, peer, raised, task, dst_index, dir_exists, conns,
                 total_docs, current_doc_enum, doc, scanv,
                 dumpv, indexed, progress, calls, hist>>

\* get_settings, get_mapping or exists raises.
ReplicateFail ==
  /\ pc \in {"get_settings", "get_mapping", "exists"}
  /\ Fail("TransportError")
  /\ UNCHANGED <<inputs, peer, raised, dst_index, dir_exists, conns,
                 src_index_settings, total_docs, current_doc_enum, doc, scanv,
                 dumpv, indexed, progress, calls, hist>>

AfterExists_AlwaysCreate(exists) == "create"

\* if not await dst_es.indices.exists(...): create, else go on to the count.
AfterExists(exists) == IF exists THEN "count" ELSE "create"

ExistsOk ==
  /\ pc = "exists"
  /\ pc' = AfterExists(dst_index.exists)
  /\ UNCHANGED <<inputs, peer, raised, task, dst_index, dir_exists, conns,
                 src_index_settings, total_docs, current_doc_enum, doc, scanv,
                 dumpv, indexed, progress, calls, hist>>

\* indices.create succeeds only on an index that does not exist yet.
CreateOk ==
  /\ pc = "create"
  /\ ~dst_index.exists
  /\ dst_index' = [exists |-> TRUE, settings |-> src_index_settings, mappings |-> "src"]
  /\ calls' = Bump(calls, "create")
  /\ pc' = "count"
  /\ UNCHANGED <<inputs, peer, raised, task, dir_exists, conns,
                 src_index_settings, total_docs, current_doc_enum, doc, scanv,
                 dumpv, indexed, progress, hist>>

\* The create call's failure ignored: the task goes on to the count.
CreateFail_Swallowed ==
  /\ pc = "create"
  /\ calls' = Bump(calls, "create")
  /\ pc' = "count"
  /\ UNCHANGED <<inputs, peer, raised, task, dst_index, dir_exists, conns,
                 src_index_settings, total_docs, current_doc_enum, doc, scanv,
                 dumpv, indexed, progress, hist>>

CreateFail ==
  /\ pc = "create"
  /\ calls' = Bump(calls, "create")
  /\ Fail("RequestError")
  /\ UNCHANGED <<inputs, peer, raised, dst_index, dir_exists, conns,
                 src_index_settings, total_docs, current_doc_enum, doc, scanv,
                 dumpv, indexed, progress, hist>>

(* ---- count ---- *)
\* The count is taken before the scan; the documents the scanner yields may
\* be fewer or more than it.
CountChoices == {c \in {0, N - 1, N, N + 1} : c >= 0}

\* migrate: the count returns and the scan is set up.  dump: the same, and
\* dst_dir is created when absent.
CountOk ==
  /\ pc = "count"
  /\ \E c \in CountChoices : total_docs' = c
  /\ calls' = Bump(calls, "count")
  /\ dir_exists' = IF mode = "dump" THEN TRUE ELSE dir_exists
  /\ pc' = "scan"
  /\ UNCHANGED <<inputs, peer, raised, task, dst_index, conns,
                 src_index_settings, current_doc_enum, doc, scanv,
                 dumpv, indexed, progress, hist>>

CountFail ==
  /\ pc = "count"
  /\ calls' = Bump(calls, "count")
  /\ Fail("TransportError")
  /\ UNCHANGED <<inputs, peer, raised, dst_index, dir_exists, conns,
                 src_index_settings, total_docs, current_doc_enum, doc, scanv,
                 dumpv, indexed, progress, hist>>

\* dump: the count returns but os.makedirs(dst_dir) raises.
MkdirFail ==
  /\ pc = "count"
  /\ mode = "dump"
  /\ ~dir_exists
  /\ \E c \in CountChoices : total_docs' = c
  /\ calls' = Bump(calls, "count")
  /\ Fail("OSError")
  /\ UNCHANGED <<inputs, peer, raised, dst_index, dir_exists, conns,
                 src_index_settings, current_doc_enum, doc, scanv,
                 dumpv, indexed, progress, hist>>

(* ---- the scanner: helpers.async_scan(..., size=docs_per_request) ---- *)
\* The next page of a static dataset: at most p documents, continuing where
\* the previous page ended.
NextPage(fetched, p) == SubSeq(src_docs, fetched + 1, Min(fetched + p, N))

\* The count reconciled with the scanner on every page.
FetchPage_Recount ==
  /\ pc = "scan"
  /\ scan_buf = <<>>
  /\ scan_fetched < N
  /\ scan_buf' = NextPage(scan_fetched, task.docs_per_request)
  /\ scan_fetched' = scan_fetched + Len(scan_buf')
  /\ total_docs' = IF scan_fetched' > total_docs THEN scan_fetched' ELSE total_docs
  /\ calls' = Bump(calls, "scan")
  /\ UNCHANGED <<inputs, peer, pc, raised, task, dst_index, dir_exists, conns,
                 src_index_settings, current_doc_enum, doc,
                 dumpv, indexed, progress, hist>>

\* The loop awaits the next document and the page buffer is empty: a page
\* request is issued and returns a non-empty page.
FetchPage ==
  /\ pc = "scan"
  /\ scan_buf = <<>>
  /\ scan_fetched < N
  /\ scan_buf' = NextPage(scan_fetched, task.docs_per_request)
  /\ scan_fetched' = scan_fetched + Len(scan_buf')
  /\ calls' = Bump(calls, "scan")
  /\ UNCHANGED <<inputs, peer, pc, raised, task, dst_index, dir_exists, conns,
                 src_index_settings, total_docs, current_doc_enum, doc,
                 dumpv, indexed, progress, hist>>

\* The error recorded but the loop left running.
ScanFail_KeepsGoing ==
  /\ pc = "scan"
  /\ scan_buf = <<>>
  /\ calls' = Bump(calls, "scan")
  /\ task' = SetError(task, "TransportError")
  /\ UNCHANGED <<inputs, peer, pc, raised, dst_index, dir_exists, conns,
                 src_index_settings, total_docs, current_doc_enum, doc, scanv,
                 dumpv, indexed, progress, hist>>

\* The page request raises inside "async for".
ScanFail ==
  /\ pc = "scan"
  /\ scan_buf = <<>>
  /\ calls' = Bump(calls, "scan")
  /\ Fail("TransportError")
  /\ UNCHANGED <<inputs, peer, raised, dst_index, dir_exists, conns,
                 src_index_settings, total_docs, current_doc_enum, doc, scanv,
                 dumpv, indexed, progress, hist>>

\* progress_bar.progress(current_doc_enum / total_docs, ...): the division
\* raises on a zero count, and the progress element rejects a float
\* outside [0.0, 1.0].
ProgressError(n, total) ==
  IF total = 0 THEN "ZeroDivisionError"
  ELSE IF n > total THEN "StreamlitAPIException"
  ELSE "none"

\* The call of progress_bar.progress that ends a loop iteration.
Publish(n) ==
  IF ProgressError(n, total_docs) = "none"
  THEN /\ progress' = Append(progress, n)
       /\ pc' = "scan"
       /\ task' = task
  ELSE /\ progress' = progress
       /\ Fail(ProgressError(n, total_docs))

(* ---- migrate_index: the loop ---- *)
\* body=doc["_source"], id=doc.get("_id", None): 0 stands for None.
IndexRequest(d) == [id |-> IF d.has_id THEN d.n ELSE 0, source |-> d.n]

\* The scanner yields a document: the counter is advanced and
\* dst_es.index(...) is awaited.
MigrateTake ==
  /\ pc = "scan"
  /\ mode = "migrate"
  /\ scan_buf # <<>>
  /\ doc' = Head(scan_buf)
  /\ scan_buf' = Tail(scan_buf)
  /\ current_doc_enum' = current_doc_enum + 1
  /\ pc' = "write"
  /\ UNCHANGED <<inputs, peer, raised, task, dst_index, dir_exists, conns,
                 src_index_settings, total_docs, scan_fetched,
                 dumpv, indexed, progress, calls, hist>>

\* dst_es.index returns; the progress is published.
IndexOk ==
  /\ pc = "write"
  /\ indexed' = Append(indexed, IndexRequest(doc))
  /\ calls' = Bump(calls, "index")
  /\ written_ok' = written_ok + 1
  /\ Publish(current_doc_enum)
  /\ UNCHANGED <<inputs, peer, raised, dst_index, dir_exists, conns,
                 src_index_settings, total_docs, current_doc_enum, doc, scanv,
                 dumpv, failed_doc>>

\* The index request sent again after it raised.
IndexFail_Retry ==
  /\ pc = "write"
  /\ calls' = Bump(calls, "index")
  /\ UNCHANGED <<inputs, peer, pc, raised, task, dst_index, dir_exists, conns,
                 src_index_settings, total_docs, current_doc_enum, doc, scanv,
                 dumpv, indexed, progress, hist>>

IndexFail ==
  /\ pc = "write"
  /\ calls' = Bump(calls, "index")
  /\ failed_doc' = current_doc_enum
  /\ Fail("TransportError")
  /\ UNCHANGED <<inputs, peer, raised, dst_index, dir_exists, conns,
                 src_index_settings, total_docs, current_doc_enum, doc, scanv,
                 dumpv, indexed, progress, written_ok>>

\* The loop ends and the task is never marked completed.
MigrateFinish_NotMarked ==
  /\ pc = "scan"
  /\ mode = "migrate"
  /\ scan_buf = <<>>
  /\ scan_fetched = N
  /\ calls' = Bump(calls, "scan")
  /\ pc' = "close_src"
  /\ UNCHANGED <<inputs, peer, raised, task, dst_index, dir_exists, conns,
                 src_index_settings, total_docs, current_doc_enum, doc, scanv,
                 dumpv, indexed, progress, hist>>

\* The scanner's last request returns no document: the loop ends and
\* task["is_completed"] = True.
MigrateFinish ==
  /\ pc = "scan"
  /\ mode = "migrate"
  /\ scan_buf = <<>>
  /\ scan_fetched = N
  /\ calls' = Bump(calls, "scan")
  /\ task' = [task EXCEPT !.is_completed = TRUE]
  /\ pc' = "close_src"
  /\ UNCHANGED <<inputs, peer, raised, dst_index, dir_exists, conns,
                 src_index_settings, total_docs, current_doc_enum, doc, scanv,
                 dumpv, indexed, progress, hist>>

(* ---- dump_index_to_jsonl: the loop ---- *)
\* {"_id": doc["_id"], "_source": doc["_source"]}
Line(d) == [id |-> d.n, source |-> d.n]

\* open(path, "w"): the file named by chunk number k is created or replaced.
WriteFile(fs, k, lines) ==
  [i \in DOMAIN fs \cup {k} |-> IF i = k THEN lines ELSE fs[i]]

\* What save_dump_chunk can leave behind when it raises: open() raised (no
\* file, buffer kept); writelines raised (some lines written, buffer kept);
\* or the close at the end of the with block raised (buffer already cleared).
SaveFailures(fs, k, chunk) ==
  {[files |-> fs, chunk |-> chunk]}
    \cup {[files |-> WriteFile(fs, k, SubSeq(chunk, 1, j)), chunk |-> chunk] :
            j \in 0..(Len(chunk) - 1)}
    \cup {[files |-> WriteFile(fs, k, SubSeq(chunk, 1, j)), chunk |-> <<>>] :
            j \in 0..Len(chunk)}

\* The chunk boundary one document late.
ShouldSave_OffByOne(n, c) == n % (c + 1) = 0

\* if current_doc_enum % max_docs_per_file == 0
ShouldSave(n, c) == n % c = 0

\* The flush after the loop left out.
NeedsFlush_Forgotten(chunk) == FALSE

\* if dump_chunk: (after the loop)
NeedsFlush(chunk) == chunk # <<>>

\* An entry of write_log: the chunk number whose file was opened, whether
\* that was the flush after the loop, and whether save_dump_chunk returned.
LogEntry(k, final, ok) == [file |-> k, final |-> final, ok |-> ok]

\* save_dump_chunk without dump_chunk.clear().
SaveOk_KeepsBuffer(chunk, final) ==
  /\ current_file_num' = current_file_num + 1
  /\ files' = WriteFile(files, current_file_num', chunk)
  /\ write_log' = Append(write_log, LogEntry(current_file_num', final, TRUE))
  /\ dump_chunk' = chunk

\* current_file_num += 1; save_dump_chunk() -- returning normally.
SaveOk(chunk, final) ==
  /\ current_file_num' = current_file_num + 1
  /\ files' = WriteFile(files, current_file_num', chunk)
  /\ write_log' = Append(write_log, LogEntry(current_file_num', final, TRUE))
  /\ dump_chunk' = <<>>

\* current_file_num += 1; save_dump_chunk() -- raising.
SaveRaises(chunk, final) ==
  /\ current_file_num' = current_file_num + 1
  /\ write_log' = Append(write_log, LogEntry(current_file_num', final, FALSE))
  /\ \E o \in SaveFailures(files, current_file_num', chunk) :
       /\ files' = o.files
       /\ dump_chunk' = o.chunk

\* One iteration: the document is counted and buffered, the chunk is saved
\* when the counter is a multiple of max_docs_per_file, and the progress is
\* published.
DumpDocOk ==
  /\ pc = "scan"
  /\ mode = "dump"
  /\ scan_buf # <<>>
  /\ Head(scan_buf).has_id
  /\ scan_buf' = Tail(scan_buf)
  /\ current_doc_enum' = current_doc_enum + 1
  /\ LET chunk == Append(dump_chunk, Line(Head(scan_buf)))
     IN IF ShouldSave(current_doc_enum', task.max_docs_per_file)
        THEN SaveOk(chunk, FALSE)
        ELSE /\ dump_chunk' = chunk
             /\ UNCHANGED <<current_file_num, files, write_log>>
  /\ written_ok' = written_ok + 1
  /\ Publish(current_doc_enum')
  /\ UNCHANGED <<inputs, peer, raised, dst_index, dir_exists, conns,
                 src_index_settings, total_docs, doc, scan_fetched,
                 indexed, calls, failed_doc>>

\* doc["_id"] raises KeyError: the document carries no identifier.
DumpKeyError ==
  /\ pc = "scan"
  /\ mode = "dump"
  /\ scan_buf # <<>>
  /\ ~Head(scan_buf).has_id
  /\ scan_buf' = Tail(scan_buf)
  /\ current_doc_enum' = current_doc_enum + 1
  /\ failed_doc' = current_doc_enum'
  /\ Fail("KeyError")
  /\ UNCHANGED <<inputs, peer, raised, dst_index, dir_exists, conns,
                 src_index_settings, total_docs, doc, scan_fetched,
                 dumpv, indexed, progress, calls, written_ok>>

\* The chunk is due and save_dump_chunk raises.
DumpSaveFail ==
  /\ pc = "scan"
  /\ mode = "dump"
  /\ scan_buf # <<>>
  /\ Head(scan_buf).has_id
  /\ scan_buf' = Tail(scan_buf)
  /\ current_doc_enum' = current_doc_enum + 1
  /\ ShouldSave(current_doc_enum', task.max_docs_per_file)
  /\ SaveRaises(Append(dump_chunk, Line(Head(scan_buf))), FALSE)
  /\ failed_doc' = current_doc_enum'
  /\ Fail("OSError")
  /\ UNCHANGED <<inputs, peer, raised, dst_index, dir_exists, conns,
                 src_index_settings, total_docs, doc, scan_fetched,
                 indexed, progress, calls, written_ok>>

\* The scanner's last request returns no document: the loop ends, a
\* non-empty buffer is saved as the last chunk, task["is_completed"] = True.
DumpFinish ==
  /\ pc = "scan"
  /\ mode = "dump"
  /\ scan_buf = <<>>
  /\ scan_fetched = N
  /\ calls' = Bump(calls, "scan")
  /\ IF NeedsFlush(dump_chunk)
     THEN SaveOk(dump_chunk, TRUE)
     ELSE UNCHANGED dumpv
  /\ task' = [task EXCEPT !.is_completed = TRUE]
  /\ pc' = "close_src"
  /\ UNCHANGED <<inputs, peer, raised, dst_index, dir_exists, conns,
                 src_index_settings, total_docs, current_doc_enum, doc, scanv,
                 indexed, progress, hist>>

\* is_completed set before the last chunk is saved, and kept when the
\* save raises.
DumpFlushFail_CompletedFirst ==
  /\ pc = "scan"
  /\ mode = "dump"
  /\ scan_buf = <<>>
  /\ scan_fetched = N
  /\ calls' = Bump(calls, "scan")
  /\ NeedsFlush(dump_chunk)
  /\ SaveRaises(dump_chunk, TRUE)
  /\ task' = [task EXCEPT !.is_completed = TRUE]
  /\ pc' = "close_src"
  /\ UNCHANGED <<inputs, peer, raised, dst_index, dir_exists, conns,
                 src_index_settings, total_docs, current_doc_enum, doc, scanv,
                 indexed, progress, hist>>

\* The loop ends and saving the last chunk raises.
DumpFlushFail ==
  /\ pc = "scan"
  /\ mode = "dump"
  /\ scan_buf = <<>>
  /\ scan_fetched = N
  /\ calls' = Bump(calls, "scan")
  /\ NeedsFlush(dump_chunk)
  /\ SaveRaises(dump_chunk, TRUE)
  /\ Fail("OSError")
  /\ UNCHANGED <<inputs, peer, raised, dst_index, dir_exists, conns,
                 src_index_settings, total_docs, current_doc_enum, doc, scanv,
                 indexed, progress, hist>>

(* ---- finally: the connections are closed ---- *)
\* await src_es.close(): an unbound name raises (the constructor had
\* failed); otherwise the connection is closed and, in migrate_index,
\* dst_es.close() is next.
CloseSrc ==
  /\ pc = "close_src"
  /\ IF src_es = "unbound"
     THEN /\ raised' = TRUE
          /\ pc' = "done"
          /\ src_es' = src_es
     ELSE /\ src_es' = "closed"
          /\ raised' = raised
          /\ pc' = IF mode = "migrate" THEN "close_dst" ELSE "done"
  /\ UNCHANGED <<inputs, peer, task, dst_index, dir_exists, dst_es,
                 src_index_settings, total_docs, current_doc_enum, doc, scanv,
                 dumpv, indexed, progress, calls, hist>>

\* The close inside the try block: its failure recorded as the task's error.
CloseSrcFail_Recorded ==
  /\ pc = "close_src"
  /\ src_es = "open"
  /\ src_es' = "close_failed"
  /\ raised' = TRUE
  /\ pc' = "done"
  /\ task' = SetError(task, "TransportError")
  /\ UNCHANGED <<inputs, peer, dst_index, dir_exists, dst_es,
                 src_index_settings, total_docs, current_doc_enum, doc, scanv,
                 dumpv, indexed, progress, calls, hist>>

\* await src_es.close() raises: the exception leaves the finally block.
CloseSrcFail ==
  /\ pc = "close_src"
  /\ src_es = "open"
  /\ src_es' = "close_failed"
  /\ raised' = TRUE
  /\ pc' = "done"
  /\ UNCHANGED <<inputs, peer, task, dst_index, dir_exists, dst_es,
                 src_index_settings, total_docs, current_doc_enum, doc, scanv,
                 dumpv, indexed, progress, calls, hist>>

CloseDst ==
  /\ pc = "close_dst"
  /\ IF dst_es = "unbound"
     THEN /\ raised' = TRUE
          /\ dst_es' = dst_es
     ELSE /\ dst_es' = "closed"
          /\ raised' = raised
  /\ pc' = "done"
  /\ UNCHANGED <<inputs, peer, task, dst_index, dir_exists, src_es,
                 src_index_settings, total_docs, current_doc_enum, doc, scanv,
                 dumpv, indexed, progress, calls, hist>>

CloseDstFail ==
  /\ pc = "close_dst"
  /\ dst_es = "open"
  /\ dst_es' = "close_failed"
  /\ raised' = TRUE
  /\ pc' = "done"
  /\ UNCHANGED <<inputs, peer, task, dst_index, dir_exists, src_es,
                 src_index_settings, total_docs, current_doc_enum, doc, scanv,
                 dumpv, indexed, progress, calls, hist>>

(* ---- a second migrate_index task on the same destination index ---- *)
\* Of the second task only the steps that read or change the destination
\* index's existence and schema are followed: its exists and create calls.
PeerIndex == [exists |-> TRUE, settings |-> {"number_of_shards"}, mappings |-> "peer"]

\* The second task is submitted and runs up to its await of exists().
PeerStart ==
  /\ peer.pc = "idle"
  /\ peer' = [peer EXCEPT !.pc = "exists"]
  /\ UNCHANGED <<inputs, pc, raised, task, dst_index, dir_exists, conns,
                 src_index_settings, total_docs, current_doc_enum, doc, scanv,
                 dumpv, indexed, progress, calls, hist>>

\* Its exists() returns what the destination cluster holds at that moment.
PeerExists ==
  /\ peer.pc = "exists"
  /\ peer' = [peer EXCEPT !.pc = AfterExists(dst_index.exists)]
  /\ UNCHANGED <<inputs, pc, raised, task, dst_index, dir_exists, conns,
                 src_index_settings, total_docs, current_doc_enum, doc, scanv,
                 dumpv, indexed, progress, calls, hist>>

\* Its create succeeds: the index does not exist yet.
PeerCreateOk ==
  /\ peer.pc = "create"
  /\ ~dst_index.exists
  /\ dst_index' = PeerIndex
  /\ peer' = [peer EXCEPT !.pc = "count", !.creates = @ + 1]
  /\ UNCHANGED <<inputs, pc, raised, task, dir_exists, conns,
                 src_index_settings, total_docs, current_doc_enum, doc, scanv,
                 dumpv, indexed, progress, calls, hist>>

\* Its create raises: the second task ends Failed.
PeerCreateFail ==
  /\ peer.pc = "create"
  /\ peer' = [peer EXCEPT !.pc = "close_src", !.creates = @ + 1, !.failed = TRUE]
  /\ UNCHANGED <<inputs, pc, raised, task, dst_index, dir_exists, conns,
                 src_index_settings, total_docs, current_doc_enum, doc, scanv,
                 dumpv, indexed, progress, calls, hist>>

(* ---- the specification ---- *)
Next ==
  \/ Submit
  \/ ConnectSrcOk \/ ConnectSrcFail \/ ConnectDstOk \/ ConnectDstFail
  \/ GetSettingsOk \/ GetMappingOk \/ ReplicateFail
  \/ ExistsOk \/ CreateOk \/ CreateFail
  \/ CountOk \/ CountFail \/ MkdirFail
  \/ FetchPage \/ ScanFail
  \/ MigrateTake \/ IndexOk \/ IndexFail \/ MigrateFinish
  \/ DumpDocOk \/ DumpKeyError \/ DumpSaveFail \/ DumpFinish \/ DumpFlushFail
  \/ CloseSrc \/ CloseSrcFail \/ CloseDst \/ CloseDstFail

Spec == Init /\ [][Next]_vars

\* Two migrate_index tasks on one destination index, their awaited steps
\* interleaved.
InitConc == InitLocals /\ InitMigrate

NextConc ==
  \/ Submit
  \/ ConnectSrcOk \/ ConnectSrcFail \/ ConnectDstOk \/ ConnectDstFail
  \/ GetSettingsOk \/ GetMappingOk \/ ReplicateFail
  \/ ExistsOk \/ CreateOk \/ CreateFail
  \/ CountOk \/ CountFail
  \/ FetchPage \/ ScanFail
  \/ MigrateTake \/ IndexOk \/ IndexFail \/ MigrateFinish
  \/ CloseSrc \/ CloseSrcFail \/ CloseDst \/ CloseDstFail
  \/ PeerStart \/ PeerExists \/ PeerCreateOk \/ PeerCreateFail

SpecConc == InitConc /\ [][NextConc]_vars

\* The event loop runs the one task: an awaited call that can return or
\* raise does so, and the code up to the next await then runs.
SpecFair == Spec /\ WF_vars(Next)

(* ======================= the claims ======================= *)
C == task.max_docs_per_file

CeilDiv(n, c) == (n + c - 1) \div c

\* The lines of chunk files 1..k, in chunk order.
RECURSIVE FilesConcat(_)
FilesConcat(k) == IF k = 0 THEN <<>> ELSE FilesConcat(k - 1) \o files[k]

\* The lines the source documents 1..n give, in scan order.
ScanLines(n) == [i \in 1..n |-> Line(src_docs[i])]

\* C1: a dump task that has completed has written exactly ceil(N/C) chunk
\* files, numbered 1..ceil(N/C), each once, each of at most C lines, N lines
\* in all, and the files in chunk order hold the documents in scan order.
C1_CompletedDumpChunks ==
  (mode = "dump" /\ task.is_completed) =>
    /\ DOMAIN files = 1..CeilDiv(N, C)
    /\ Len(write_log) = CeilDiv(N, C)
    /\ \A i \in 1..Len(write_log) : write_log[i].file = i
    /\ \A k \in DOMAIN files : Len(files[k]) <= C
    /\ Len(FilesConcat(CeilDiv(N, C))) = N
    /\ FilesConcat(CeilDiv(N, C)) = ScanLines(N)

\* Scenario A: 25 documents in chunks of 10 end as files of 10, 10 and 5.
C1_Witness ==
  /\ mode = "dump"
  /\ task.is_completed
  /\ N = 25
  /\ C = 10
  /\ DOMAIN files = 1..3
  /\ <<Len(files[1]), Len(files[2]), Len(files[3])>> = <<10, 10, 5>>

\* C2: a task whose sink write of document k raised is left with a counter
\* of k-1, Failed, with an error recorded.
C2_FailedOnDocK ==
  failed_doc > 0 =>
    /\ current_doc_enum = failed_doc - 1
    /\ HasError
    /\ ~task.is_completed

\* C3: the counter equals the number of documents whose sink write has
\* succeeded so far.
C3_CounterIsWritten == current_doc_enum = written_ok

\* The status of the task, read off the task dict and the task's position.
Status ==
  IF HasError THEN "Failed"
  ELSE IF task.is_completed THEN "Completed"
  ELSE IF pc \in {"pending", "rejected"} THEN "Pending"
  ELSE "Running"

\* C4: a task goes Pending -> Running -> Completed or Failed; a Completed
\* or Failed task keeps its status in every later step, and none returns to
\* Pending or Running.
C4_Lifecycle ==
  [][ /\ (Status = "Pending" => Status' \in {"Pending", "Running"})
      /\ (Status = "Running" => Status' \in {"Running", "Completed", "Failed"})
      /\ (Status \in {"Completed", "Failed"} => Status' = Status) ]_vars

\* A Completed task whose close then raised: still Completed.
C4_Witness ==
  /\ pc = "done"
  /\ raised
  /\ src_es = "close_failed"
  /\ Status = "Completed"

\* C5: no task is both completed and carrying an error, and a task function
\* that has ended without is_completed has an error recorded.
C5_ErrorIffFailed ==
  /\ ~(task.is_completed /\ HasError)
  /\ ((pc = "done" /\ ~task.is_completed) => HasError)

\* The function raised out of finally, not completed, the error recorded.
C5_Witness ==
  /\ pc = "done"
  /\ raised
  /\ ~task.is_completed
  /\ HasError

\* C6: when the task function has ended, no connection it opened is still
\* open.
C6_ConnectionsClosed ==
  pc = "done" => (src_es # "open" /\ dst_es # "open")

\* C7: a task whose count is 0 does not fail with a division by zero.
C7_NoDivisionByZero ==
  total_docs = 0 => ~(HasError /\ task.error = "ZeroDivisionError")

\* The errors of the connections, the replication, the count, the scan and
\* the sink.
TransferErrors == {"ValueError", "TransportError", "RequestError", "OSError", "KeyError"}

\* C8: whatever the count, a task in which no connection, replication,
\* count, scan or sink step raised does not fail, and a completed task has
\* written every document the scanner yields.
C8_CountNeverEndsScan ==
  /\ (HasError => task.error \in TransferErrors)
  /\ (task.is_completed => written_ok = N)

\* C9: while the destination index exists no step issues a create call or
\* changes its settings or mappings.
C9_ExistingIndexKept ==
  [][ dst_index.exists =>
        (dst_index' = dst_index /\ calls'.create = calls.create) ]_vars

\* The destination had its own schema; the run completed, wrote documents,
\* issued no create and left the schema as it was.
C9_Witness ==
  /\ mode = "migrate"
  /\ task.is_completed
  /\ dst_index = OwnIndex
  /\ calls.create = 0
  /\ Len(indexed) = N
  /\ N > 0

\* The chunk files on disk: none holds more than C lines, no line is in two
\* files, and no file name was opened twice.
ChunkFilesSound ==
  /\ \A k \in DOMAIN files : Len(files[k]) <= C
  /\ \A k1, k2 \in DOMAIN files :
       k1 # k2 => \A i \in 1..Len(files[k1]), j \in 1..Len(files[k2]) :
                     files[k1][i] # files[k2][j]
  /\ \A i, j \in 1..Len(write_log) :
       i # j => write_log[i].file # write_log[j].file

\* C10 as stated: in every state of a dump task, Failed runs included, the
\* chunk files are sound and every file written before the end of the scan
\* holds exactly C lines.
C10_EveryEarlyFileFull ==
  mode = "dump" =>
    /\ ChunkFilesSound
    /\ \A i \in 1..Len(write_log) :
         (write_log[i].file \in DOMAIN files /\ ~write_log[i].final)
           => Len(files[write_log[i].file]) = C

\* C10 amended: the chunk files are sound, and every file whose save
\* returned before the end of the scan holds exactly C lines; a file whose
\* save raised is the last one opened, in a Failed task; and every file
\* holds the leading lines of its own chunk.
C10_EverySavedFileFull ==
  mode = "dump" =>
    /\ ChunkFilesSound
    /\ \A i \in 1..Len(write_log) :
         (write_log[i].ok /\ ~write_log[i].final)
           => /\ write_log[i].file \in DOMAIN files
              /\ Len(files[write_log[i].file]) = C
    /\ \A i \in 1..Len(write_log) :
         (~write_log[i].ok /\ write_log[i].file \in DOMAIN files)
           => /\ i = Len(write_log)
              /\ HasError
    /\ \A k \in DOMAIN files :
         files[k] = SubSeq(ScanLines(N), (k - 1) * C + 1, (k - 1) * C + Len(files[k]))

\* A Failed dump: the first chunk saved in full, the second left short by a
\* save that raised during the scan.
C10_Witness ==
  /\ mode = "dump"
  /\ HasError
  /\ Len(write_log) = 2
  /\ write_log[1].ok
  /\ ~write_log[2].ok
  /\ ~write_log[2].final
  /\ DOMAIN files = 1..2
  /\ Len(files[1]) = C
  /\ Len(files[2]) < C

\* C11: the count is taken at most once, before the first scan request, and
\* once taken no step changes total_docs, whatever the scanner yields.
C11_CountTakenOnce ==
  [][ /\ (total_docs # -1 => total_docs' = total_docs)
      /\ calls'.count <= 1
      /\ (calls'.scan > 0 => (total_docs' # -1 /\ calls'.count = 1)) ]_vars

\* A completed run whose count differs from the number of documents the
\* scanner yielded over several requests.
C11_Witness ==
  /\ task.is_completed
  /\ total_docs # -1
  /\ total_docs # N
  /\ calls.scan > 1

\* The positions of migrate_index inside the schema replication.
ReplicationSteps == {"get_settings", "get_mapping", "exists", "create"}

\* C13: in migrate_index a replication step that raises ends the task Failed
\* with no count, scan or index request issued then or later; a count, scan
\* or index request is only ever issued once the settings were fetched and
\* sanitized and the destination index exists.
C13_ReplicationFirst ==
  [][ mode = "migrate" =>
        /\ (pc \in ReplicationSteps =>
              (calls.count = 0 /\ calls.scan = 0 /\ calls.index = 0))
        /\ ((pc \in ReplicationSteps /\ pc' = "close_src") =>
              (HasError' /\ calls'.count = 0 /\ calls'.scan = 0 /\ calls'.index = 0))
        /\ (HasError =>
              (calls' = calls /\ indexed' = indexed))
        /\ ((calls'.count > 0 \/ calls'.scan > 0 \/ calls'.index > 0) =>
              (dst_index'.exists /\ src_index_settings' = Sanitize(src_settings))) ]_vars

\* The create call raised: the task ended Failed, nothing counted, scanned
\* or written.
C13_Witness ==
  /\ mode = "migrate"
  /\ pc = "done"
  /\ HasError
  /\ calls.create = 1
  /\ ~dst_index.exists
  /\ calls.count = 0
  /\ calls.scan = 0
  /\ calls.index = 0

\* The documents the loop has taken from the scanner.
Taken == scan_fetched - Len(scan_buf)

\* C14: the sink write of document i is issued once, after the writes of
\* documents 1..i-1 have completed and before document i+1 is taken, and the
\* writes are in scan order.
C14_ScanWriteInterleaved ==
  /\ Taken = current_doc_enum
  /\ mode = "migrate" =>
       /\ indexed = [i \in 1..Len(indexed) |-> IndexRequest(src_docs[i])]
       /\ calls.index <= Taken
       /\ pc = "write" =>
            /\ doc = src_docs[Taken]
            /\ calls.index = Taken - 1
            /\ Len(indexed) = Taken - 1
       /\ pc = "scan" =>
            /\ calls.index = Taken
            /\ Len(indexed) = Taken
  /\ (mode = "dump" /\ pc = "scan") =>
       /\ DOMAIN files = 1..current_file_num
       /\ FilesConcat(current_file_num) \o dump_chunk = ScanLines(Taken)

\* The third document is being written: two writes have completed.
C14_Witness ==
  /\ mode = "migrate"
  /\ pc = "write"
  /\ Taken = 3
  /\ Len(indexed) = 2
  /\ calls.index = 2

\* The lines on disk, over all chunk files.
LinesOnDisk == UNION {{files[k][i] : i \in 1..Len(files[k])} : k \in DOMAIN files}

\* C15: a completed dump task has an empty buffer and every document the
\* scanner yielded in some chunk file; a task whose flush after the loop
\* raised is Failed and not completed.
C15_CompletedAfterFlush ==
  mode = "dump" =>
    /\ task.is_completed =>
         /\ dump_chunk = <<>>
         /\ Taken = N
         /\ \A i \in 1..N : Line(src_docs[i]) \in LinesOnDisk
    /\ \A i \in 1..Len(write_log) :
         (write_log[i].final /\ ~write_log[i].ok) =>
           (HasError /\ ~task.is_completed)

\* A completed dump whose last, short chunk was written by the flush after
\* the loop.
C15_Witness ==
  /\ mode = "dump"
  /\ task.is_completed
  /\ N % C # 0
  /\ Len(write_log) > 1
  /\ write_log[Len(write_log)].final
  /\ write_log[Len(write_log)].ok
  /\ Len(files[Len(write_log)]) = N % C

\* Once an error is recorded no request is issued and nothing transferred
\* changes.
FailFast ==
  HasError => (calls' = calls /\ indexed' = indexed /\ files' = files)

\* The lines of all chunk files on disk, in chunk order.
AllFileLines == FilesConcat(Cardinality(DOMAIN files))

\* The chunk files whose save returned.
SavedFiles == {write_log[i].file : i \in {j \in 1..Len(write_log) : write_log[j].ok}}

\* C16 as stated: a Failed task that had consumed m documents has
\* transferred exactly the first m of them (migrate) or exactly the first
\* C * floor(m / C) of them (dump), and nothing is issued or changed after
\* the error.
C16_OutputOfConsumed ==
  [][ /\ FailFast
      /\ HasError' =>
           /\ mode = "migrate" =>
                indexed' = [i \in 1..Taken' |-> IndexRequest(src_docs[i])]
           /\ mode = "dump" =>
                /\ DOMAIN files' = 1..Cardinality(DOMAIN files')
                /\ AllFileLines' = ScanLines(C * (Taken' \div C)) ]_vars

\* The output of a Failed task in terms of the w documents whose sink write
\* succeeded: the first w index requests (migrate); the saved files hold the
\* first C * floor(w / C) documents and a further file, left by the save
\* that raised, holds leading lines of the next chunk (dump).
OutputOfWritten ==
  /\ written_ok \in {Taken - 1, Taken}
  /\ mode = "migrate" =>
       indexed = [i \in 1..written_ok |-> IndexRequest(src_docs[i])]
  /\ mode = "dump" =>
       /\ SavedFiles = 1..(written_ok \div C)
       /\ FilesConcat(written_ok \div C) = ScanLines(C * (written_ok \div C))
       /\ \A k \in DOMAIN files \ SavedFiles :
            /\ k = (written_ok \div C) + 1
            /\ files[k] = SubSeq(ScanLines(N), C * (k - 1) + 1, C * (k - 1) + Len(files[k]))

\* C16 amended: nothing is issued or changed after the error, and the output
\* of a Failed task is that of the documents whose sink write succeeded.
C16_OutputOfWritten ==
  [][ /\ FailFast
      /\ HasError' => OutputOfWritten' ]_vars

\* A Failed dump that consumed four documents in chunks of two: the first
\* chunk saved, the save of the second raised.
C16_Witness ==
  /\ mode = "dump"
  /\ pc = "done"
  /\ HasError
  /\ C = 2
  /\ Taken = 4
  /\ written_ok = 3
  /\ SavedFiles = {1}
  /\ Len(files[1]) = 2

\* C17: a task whose function was entered eventually ends, completed or
\* with an error recorded, whichever of its steps return or raise.
C17_Terminates ==
  (pc = "conn_src") ~> (pc = "done" /\ (task.is_completed \/ HasError))

\* A run of the longest small dataset that went through every step and
\* ended completed, both connections closed.
C17_Witness ==
  /\ mode = "migrate"
  /\ pc = "done"
  /\ task.is_completed
  /\ calls.create = 1
  /\ Len(indexed) = N
  /\ N > 2
  /\ src_es = "closed"
  /\ dst_es = "closed"

\* C18: a scanned document without an identifier does not fail the task: no
\* task ends with the KeyError of reading "_id", and a migrate task that has
\* written such a document sent it with no identifier.
C18_AbsentIdTolerated ==
  /\ ~(HasError /\ task.error = "KeyError")
  /\ \A i \in 1..Len(indexed) : (~src_docs[i].has_id => indexed[i].id = 0)

\* C19: with two migrate tasks on one destination index, neither issues a
\* create call while the index exists, so neither is failed by the other's
\* create.
C19_CheckThenCreateAtomic ==
  [][ dst_index.exists =>
        (calls'.create = calls.create /\ peer'.creates = peer.creates) ]_vars

\* C20: in a dump task, whenever the loop is at its head the buffer holds
\* current_doc_enum mod C lines and current_file_num is
\* floor(current_doc_enum / C); an iteration saves a chunk exactly when the
\* buffer, with the new line, holds C lines.
C20_DumpLoopInvariant ==
  [][ (mode = "dump" /\ pc' = "scan") =>
        /\ Len(dump_chunk') = current_doc_enum' % C
        /\ current_file_num' = current_doc_enum' \div C
        /\ current_doc_enum' # current_doc_enum =>
             /\ (current_file_num' # current_file_num) <=> (Len(dump_chunk) + 1 = C)
             /\ current_file_num' # current_file_num =>
                  /\ Len(files'[current_file_num']) = C
                  /\ dump_chunk' = <<>> ]_vars

\* After the fourth iteration with chunks of two: two files, empty buffer.
C20_Witness ==
  /\ mode = "dump"
  /\ pc = "scan"
  /\ C = 2
  /\ current_doc_enum = 4
  /\ current_file_num = 2
  /\ dump_chunk = <<>>
  /\ Len(files[2]) = 2
====
